---- MODULE Spec2Model ----
(***************************************************************************)
(* Model of the four local inference gateways of agentloop                 *)
(*   scripts/services/mlx/server.py         (LLM, in-process, locked)      *)
(*   scripts/vlm/server.py                  (VLM, in-process)              *)
(*   scripts/kokomo/server.py               (TTS, subprocess per request)  *)
(*   scripts/services/chatterbox/server.py  (TTS, in-process, chunked)     *)
(* and of the text chunker _split_text of the chatterbox gateway.          *)
(*                                                                         *)
(* Texts are sequences of one-character strings.                           *)
(***************************************************************************)
EXTENDS Integers, Sequences, FiniteSets, TLC

\* ------------------------------------------------------------------ bounds
\* longest text given to the chunker
MaxLen == 6
\* largest chunk budget given to the chunker (the smallest is MinBudget)
MaxBudget == 3
\* number of requests a gateway process handles (concurrently)
MaxReq == 2
\* longest text given to the chunker when it is run turn by turn
MaxStepLen == 5

\* -------------------------------------------------------------- characters
SP == " "
Alphabet == {"a", SP, ".", ","}
\* [.!?] of the sentence pattern, restricted to the alphabet
SentenceEnd == {"."}
\* , of the clause pattern
ClauseEnd == {","}

Texts == UNION {[1..n -> Alphabet] : n \in 0..MaxLen}
MinBudget == 0 - 1
Budgets == MinBudget..MaxBudget

\* ------------------------------------------------ Python string primitives
\* str.lstrip() / str.rstrip() / str.strip() on the whitespace of the alphabet
RECURSIVE LStrip(_)
LStrip(s) == IF s # <<>> /\ Head(s) = SP THEN LStrip(Tail(s)) ELSE s

RECURSIVE RStrip(_)
RStrip(s) ==
    IF s # <<>> /\ s[Len(s)] = SP THEN RStrip(SubSeq(s, 1, Len(s) - 1)) ELSE s

Strip(s) == RStrip(LStrip(s))

\* first index >= i of s that holds no whitespace (Len(s)+1 when there is none)
RECURSIVE SkipSpaces(_, _)
SkipSpaces(s, i) ==
    IF i <= Len(s) /\ s[i] = SP THEN SkipSpaces(s, i + 1) ELSE i

\* re.split(r"(?<=[P])\s+", s): cut at every whitespace run that directly
\* follows a character of P; the run is dropped, the character is kept; a run
\* at the end of s leaves a trailing empty piece.
RECURSIVE ReSplitFrom(_, _, _, _)
ReSplitFrom(s, P, i, piece) ==
    IF i > Len(s) THEN <<piece>>
    ELSE IF i > 1 /\ s[i] = SP /\ s[i - 1] \in P
         THEN <<piece>> \o ReSplitFrom(s, P, SkipSpaces(s, i), <<>>)
         ELSE ReSplitFrom(s, P, i + 1, Append(piece, s[i]))

ReSplit(s, P) == ReSplitFrom(s, P, 1, <<>>)

\* str.split(): the maximal whitespace-free runs of s, in order
RECURSIVE SplitFrom(_, _, _)
SplitFrom(s, i, word) ==
    IF i > Len(s) THEN (IF word = <<>> THEN <<>> ELSE <<word>>)
    ELSE IF s[i] = SP
         THEN (IF word = <<>> THEN <<>> ELSE <<word>>) \o SplitFrom(s, i + 1, <<>>)
         ELSE SplitFrom(s, i + 1, Append(word, s[i]))

Split(s) == SplitFrom(s, 1, <<>>)

\* " ".join(seq)
RECURSIVE JoinSp(_)
JoinSp(seq) ==
    IF seq = <<>> THEN <<>>
    ELSE IF Len(seq) = 1 THEN seq[1]
         ELSE seq[1] \o <<SP>> \o JoinSp(Tail(seq))

\* ------------------------------------------------------------- _split_text
\* len(acc + " " + piece) <= max_chars, the test of all three levels
FitsLoose(acc, piece, max_chars) == Len(acc) <= max_chars
Fits(acc, piece, max_chars) == Len(acc \o <<SP>> \o piece) <= max_chars

\* chunks.append(acc.strip()) guarded by `if acc:`
FlushWords(chunks, acc) == chunks \o Split(acc)
Flush(chunks, acc) == IF acc # <<>> THEN Append(chunks, Strip(acc)) ELSE chunks

\* the word loop of an oversized clause, its final flush included
RECURSIVE WordLoop(_, _, _, _, _)
WordLoop(words, k, word_chunk, chunks, max_chars) ==
    IF k > Len(words) THEN Flush(chunks, word_chunk)
    ELSE IF Fits(word_chunk, words[k], max_chars)
         THEN WordLoop(words, k + 1, Strip(word_chunk \o <<SP>> \o words[k]),
                       chunks, max_chars)
         ELSE WordLoop(words, k + 1, words[k], Flush(chunks, word_chunk), max_chars)

\* the clause loop of an oversized sentence; the state is (current, chunks)
RECURSIVE PartLoop(_, _, _, _, _)
PartLoop(parts, k, current, chunks, max_chars) ==
    IF k > Len(parts) THEN [current |-> current, chunks |-> chunks]
    ELSE IF Len(parts[k]) > max_chars
         THEN PartLoop(parts, k + 1, current,
                       WordLoop(Split(parts[k]), 1, <<>>, chunks, max_chars),
                       max_chars)
         ELSE IF Fits(current, parts[k], max_chars)
              THEN PartLoop(parts, k + 1, Strip(current \o <<SP>> \o parts[k]),
                            chunks, max_chars)
              ELSE PartLoop(parts, k + 1, parts[k], Flush(chunks, current),
                            max_chars)

\* the sentence loop; the state is (current, chunks)
RECURSIVE SentenceLoop(_, _, _, _, _)
SentenceLoop(sentences, k, current, chunks, max_chars) ==
    IF k > Len(sentences) THEN [current |-> current, chunks |-> chunks]
    ELSE IF Len(sentences[k]) > max_chars
         THEN LET st == PartLoop(ReSplit(sentences[k], ClauseEnd), 1, <<>>,
                                 Flush(chunks, current), max_chars)
              IN  SentenceLoop(sentences, k + 1, st.current, st.chunks, max_chars)
         ELSE IF Fits(current, sentences[k], max_chars)
              THEN SentenceLoop(sentences, k + 1,
                                Strip(current \o <<SP>> \o sentences[k]),
                                chunks, max_chars)
              ELSE SentenceLoop(sentences, k + 1, sentences[k],
                                Flush(chunks, current), max_chars)

\* [c for c in chunks if c.strip()]
RECURSIVE DropBlank(_)
DropBlank(chunks) ==
    IF chunks = <<>> THEN <<>>
    ELSE IF Strip(Head(chunks)) # <<>>
         THEN <<Head(chunks)>> \o DropBlank(Tail(chunks))
         ELSE DropBlank(Tail(chunks))

split_text(text, max_chars) ==
    IF Len(text) <= max_chars THEN <<text>>
    ELSE LET st == SentenceLoop(ReSplit(text, SentenceEnd), 1, <<>>, <<>>,
                                max_chars)
         IN  DropBlank(Flush(st.chunks, st.current))

\* the local variables of a call of _split_text, before its first statement
NoFrame ==
    [sentences |-> <<>>, i |-> 0, parts |-> <<>>, j |-> 0, words |-> <<>>,
     k |-> 0, current |-> <<>>, word_chunk |-> <<>>, chunks |-> <<>>]

\* `acc` takes `piece` when both fit the budget, else it is flushed and
\* restarts with the piece: [the new acc, the new chunks]
Take(acc, piece, chunks, max_chars) ==
    IF Fits(acc, piece, max_chars)
    THEN [acc |-> Strip(acc \o <<SP>> \o piece), chunks |-> chunks]
    ELSE [acc |-> piece, chunks |-> Flush(chunks, acc)]

\* a turn of the word loop that loses the word which does not fit
WordTurnDropping(f, max_chars) ==
    IF Fits(f.word_chunk, f.words[f.k], max_chars)
    THEN [f EXCEPT !.word_chunk = Strip(f.word_chunk \o <<SP>> \o f.words[f.k]),
                   !.k = f.k + 1]
    ELSE [f EXCEPT !.k = f.k + 1]

\* lines 94-100: one turn of `for word in words`
WordTurn(f, max_chars) ==
    LET t == Take(f.word_chunk, f.words[f.k], f.chunks, max_chars) IN
    [f EXCEPT !.word_chunk = t.acc, !.chunks = t.chunks, !.k = f.k + 1]

\* lines 90-93, 103-109: one turn of `for part in parts`; an oversized part
\* is cut into words and the word loop starts
PartTurn(f, max_chars) ==
    LET part == f.parts[f.j]
        t == Take(f.current, part, f.chunks, max_chars)
    IN  IF Len(part) > max_chars
        THEN [f EXCEPT !.words = Split(part), !.k = 1, !.word_chunk = <<>>]
        ELSE [f EXCEPT !.current = t.acc, !.chunks = t.chunks, !.j = f.j + 1]

\* lines 83-89, 110-116: one turn of `for sentence in sentences`; before an
\* oversized sentence current is flushed, the sentence is cut into parts and
\* the part loop starts
SentenceTurn(f, max_chars) ==
    LET sentence == f.sentences[f.i]
        t == Take(f.current, sentence, f.chunks, max_chars)
    IN  IF Len(sentence) > max_chars
        THEN [f EXCEPT !.chunks = Flush(f.chunks, f.current), !.current = <<>>,
                       !.parts = ReSplit(sentence, ClauseEnd), !.j = 1]
        ELSE [f EXCEPT !.current = t.acc, !.chunks = t.chunks, !.i = f.i + 1]

\* ---------------------------------------------------------------- requests
Req == 1..MaxReq
Gateways == {"mlx", "vlm", "kokomo", "chatterbox"}

\* the model id the process was started with, and another one
BoundModel == "my-model"
OtherModel == "other-model"
NoModel == "None"

\* a JSON value of a numeric parameter: null/absent, a number, a non-numeric string
JNull == [t |-> "null", n |-> 0]
JNum(k) == [t |-> "num", n |-> k]
JStr == [t |-> "str", n |-> 0]

\* x or d  (Python: null and 0 are falsy, a non-empty string is truthy)
PyOr(x, d) == IF x.t = "null" \/ (x.t = "num" /\ x.n = 0) THEN d ELSE x

\* the texts a TTS request carries
TEmpty == <<>>
TBlank == <<SP>>
TWord == <<"a">>
TLong == <<"a", ".", SP, "a">>

\* process-wide defaults
\* MLX_MAX_TOKENS / VLM_MAX_TOKENS
DefaultMaxTokens == 256
\* CHATTERBOX_CHUNK_SIZE
DefaultChunkSize == 250

Blank == [method |-> "POST", path |-> "/nope", ctype |-> "json", body |-> "object",
          messages |-> "absent", model |-> NoModel, max_tokens |-> JNull,
          text |-> TEmpty, input |-> TEmpty, chunk_size |-> JNull]

\* POST requests to a chat gateway. body: a JSON object, another JSON value
\* ("array"), or bytes that are no JSON ("garbage"). messages: absent or [],
\* a non-list ("string"), a user text message ("text"), a user message with
\* text and a data: image ("image"), with an image of broken base64
\* ("badimage"), or messages with no user text and no image ("empty").
Chat(messages, model, max_tokens) ==
    [Blank EXCEPT !.path = "/v1/chat/completions", !.messages = messages,
                  !.model = model, !.max_tokens = max_tokens]

ChatRequests(g) ==
    {Blank}
    \cup {[Blank EXCEPT !.path = "/v1/chat/completions", !.body = b] :
            b \in {"array", "garbage"}}
    \cup {Chat("absent", i, JNull) : i \in {NoModel, OtherModel}}
    \cup {Chat("text", i, JNull) : i \in {NoModel, BoundModel, OtherModel}}
    \cup {Chat("text", NoModel, t) : t \in {JNum(0), JNum(7), JStr}}
    \cup (IF g = "mlx" THEN {Chat("string", NoModel, JNull)}
          ELSE {Chat(m, NoModel, JNull) : m \in {"image", "badimage", "empty"}})

\* POST requests to a TTS gateway: a raw text body, or a JSON body with
\* text and input (the empty text stands for absent, null or "")
Raw(text) == [Blank EXCEPT !.path = "/tts", !.ctype = "plain", !.text = text]
Json(text, input, model, chunk_size) ==
    [Blank EXCEPT !.path = "/tts", !.text = text, !.input = input,
                  !.model = model, !.chunk_size = chunk_size]

TtsRequests(g) ==
    {Blank}
    \cup {Raw(t) : t \in {TEmpty, TBlank, TWord}}
    \cup {[Blank EXCEPT !.path = "/tts", !.body = b] : b \in {"array", "garbage"}}
    \cup {Json(t[1], t[2], NoModel, JNull) :
            t \in {<<TEmpty, TEmpty>>, <<TBlank, TEmpty>>, <<TEmpty, TBlank>>,
                   <<TWord, TEmpty>>}}
    \cup (IF g = "kokomo"
          THEN {Json(TEmpty, TWord, NoModel, JNull)}
               \cup {Json(t, TEmpty, i, JNull) :
                       t \in {TEmpty, TWord}, i \in {BoundModel, OtherModel}}
          ELSE {Json(t, TEmpty, NoModel, JStr) : t \in {TEmpty, TWord}}
               \cup {Json(TLong, TEmpty, NoModel, c) : c \in {JNum(0), JNum(2)}})

Requests(g) == IF g \in {"mlx", "vlm"} THEN ChatRequests(g) ELSE TtsRequests(g)

\* GET requests: the liveness probe, the second path each do_GET knows (the
\* model list of a chat gateway, the banner of a TTS gateway), another path
Get(path) == [Blank EXCEPT !.method = "GET", !.path = path]
GetRequests(g) ==
    {Get("/health"), Get("/nope")}
    \cup (IF g \in {"mlx", "vlm"} THEN {Get("/v1/models")} ELSE {Get("/")})

\* ---------------------------------------------- outcomes of the validation
\* _send(status, body) and return
Respond(status, body) ==
    [kind |-> "respond", status |-> status, body |-> body, model |-> NoModel,
     text |-> TEmpty, n |-> 0]
\* the 400 of the model check, which carries the bound model id
RespondModel(model_id) ==
    [kind |-> "respond", status |-> 400, body |-> "single model",
     model |-> model_id, text |-> TEmpty, n |-> 0]
\* an exception that no except clause of do_POST catches
Raise ==
    [kind |-> "raise", status |-> 0, body |-> "", model |-> NoModel,
     text |-> TEmpty, n |-> 0]
\* validation passed: the values the backend will be called with
Proceed(model, text, n) ==
    [kind |-> "proceed", status |-> 0, body |-> "", model |-> model,
     text |-> text, n |-> n]

\* str(payload.get("model") or bound)
ModelOr(q, bound) == IF q.model = NoModel THEN bound ELSE q.model

\* mlx Handler.do_POST up to the try block
MlxValidate(q, model_id) ==
    IF q.path # "/v1/chat/completions" THEN Respond(404, "not found")
    ELSE IF q.body = "garbage" THEN Respond(400, "invalid json")
    ELSE IF q.body # "object" THEN Raise
    ELSE IF q.messages \in {"absent", "string"}
         THEN Respond(400, "missing messages[]")
    ELSE IF ModelOr(q, model_id) # model_id THEN RespondModel(model_id)
    ELSE IF PyOr(q.max_tokens, JNum(DefaultMaxTokens)).t = "str" THEN Raise
    ELSE Proceed(model_id, TEmpty, PyOr(q.max_tokens, JNum(DefaultMaxTokens)).n)

\* vlm Handler.do_POST up to the try block
VlmValidate(q, model_id) ==
    IF q.path # "/v1/chat/completions" THEN Respond(404, "not found")
    ELSE IF q.body = "garbage" THEN Respond(400, "invalid json")
    ELSE IF q.body # "object" THEN Raise
    ELSE IF q.messages = "absent" THEN Respond(400, "missing messages[]")
    ELSE IF ModelOr(q, model_id) # model_id THEN RespondModel(model_id)
    ELSE IF q.messages = "badimage" THEN Raise
    ELSE IF q.messages = "empty" THEN Respond(400, "provide user text")
    ELSE IF PyOr(q.max_tokens, JNum(DefaultMaxTokens)).t = "str" THEN Raise
    ELSE Proceed(model_id, TEmpty, PyOr(q.max_tokens, JNum(DefaultMaxTokens)).n)

\* str(payload.get("text") or payload.get("input") or "") for a JSON object,
\* raw.decode() for another content type; "" where the JSON parse fails
ResolvedText(q) ==
    IF q.ctype # "json" THEN q.text
    ELSE IF q.body # "object" THEN TEmpty
    ELSE IF q.text # TEmpty THEN q.text ELSE q.input

\* `if not text` after text = text.strip()
MissingTextUnstripped(q) == ResolvedText(q) = TEmpty
MissingText(q) == Strip(ResolvedText(q)) = TEmpty

\* kokomo Handler.do_POST up to the with block
KokomoValidate(q, model_id, gen) ==
    IF q.path # "/tts" THEN Respond(404, "not found")
    ELSE IF q.ctype = "json" /\ q.body # "object" THEN Respond(400, "invalid json")
    ELSE IF MissingText(q) THEN Respond(400, "missing text")
    ELSE IF gen = "None" THEN Respond(500, "generator not found")
    ELSE Proceed(IF q.ctype = "json" THEN ModelOr(q, model_id) ELSE model_id,
                 Strip(ResolvedText(q)), 0)

\* chatterbox Handler.do_POST up to the first try block
ChatterboxValidate(q) ==
    IF q.path # "/tts" THEN Respond(404, "not found")
    ELSE IF q.ctype = "json" /\ (q.body # "object" \/ q.chunk_size.t = "str")
         THEN Respond(400, "invalid json")
    ELSE IF MissingText(q) THEN Respond(400, "missing text")
    ELSE Proceed(NoModel, Strip(ResolvedText(q)),
                 IF q.ctype = "json" /\ q.chunk_size.t = "num"
                 THEN q.chunk_size.n ELSE DefaultChunkSize)

\* ------------------------------------------------------------------- state
VARIABLES
    ctext,      \* chunker run: the text
    cbudget,    \* chunker run: max_chars
    cpc,        \* chunker run: "call" before _split_text, "done" after
    cchunks,    \* chunker run: the list returned
    cframe,     \* chunker run, step by step: the local variables of the call
    gateway,    \* which of the four servers this process is
    generator,  \* kokomo: server.generator, "None" when no binary was found
    MODEL,      \* chatterbox: the global MODEL, "None" until loaded
    loads,      \* the number of model loads this process has done
    lock,       \* mlx: holder of server.lock, 0 when free
    tmpdirs,    \* the temporary directories that exist
    pc,         \* per request: where its handler thread is
    req,        \* per request: the request as received
    args,       \* per request: the validated values (model, text, number)
    chunks,     \* per request: chatterbox, the chunks of _generate_wav
    calls,      \* per request: the backend invocations made, in order
    tmpdir,     \* per request: the directory of its with block, 0 outside
    resp,       \* per request: the responses sent, in order
    MODEL_SR,   \* chatterbox: the global MODEL_SR, 0 for None
    wavs,       \* per request: chatterbox, the list wavs of _generate_wav
    audio       \* per request: chatterbox, what _generate_wav returned

cvars == <<ctext, cbudget, cpc, cchunks, cframe>>
svars == <<gateway, generator, MODEL, loads, lock, tmpdirs>>
rvars == <<pc, req, args, chunks, calls, tmpdir, resp>>
avars == <<MODEL_SR, wavs, audio>>
vars == <<cvars, svars, rvars, avars>>

NoDir == 0
DirNames == 1..MaxReq

\* None as the value of MODEL_SR (falsy, like the rate 0)
NoSr == 0
\* the rate of `MODEL_SR or 24000`
DefaultSr == 24000
\* the attribute sr of the model from_pretrained returns: the native sample
\* rate of the checkpoint, here one that is not the rate of the fallback
ModelSr == 16000
\* the number of samples of the tensor MODEL.generate returns for a chunk:
\* the longer the text, the longer the audio
WavSamples(chunk) == 1000 * Len(chunk)

\* --------------------------------------------------------------- start-up
\* main() of each server: mlx and vlm load the model in the constructor of
\* the server, kokomo picks the generator binary, chatterbox loads nothing.
GatewayInit ==
    /\ gateway \in Gateways
    /\ generator \in (IF gateway = "kokomo" THEN {"mlx_audio.tts.generate", "None"}
                      ELSE {"None"})
    /\ MODEL = "None"
    /\ loads = IF gateway \in {"mlx", "vlm"} THEN 1 ELSE 0
    /\ lock = 0
    /\ tmpdirs = {}
    /\ pc = [r \in Req |-> "idle"]
    /\ req = [r \in Req |-> Blank]
    /\ args = [r \in Req |-> Raise]
    /\ chunks = [r \in Req |-> <<>>]
    /\ calls = [r \in Req |-> <<>>]
    /\ tmpdir = [r \in Req |-> NoDir]
    /\ resp = [r \in Req |-> <<>>]
    /\ MODEL_SR = NoSr
    /\ wavs = [r \in Req |-> <<>>]
    /\ audio = [r \in Req |-> <<>>]

\* ------------------------------------------------------------ bookkeeping
\* Handler._send
Send(r, status, body, model) ==
    resp' = [resp EXCEPT ![r] = Append(@, [status |-> status, body |-> body,
                                           model |-> model])]

\* one backend invocation: the entry point, the model id and values it gets
Call(fn, model, text, n) ==
    [fn |-> fn, model |-> model, text |-> text, n |-> n, result |-> "running"]

Enter(r, c) == calls' = [calls EXCEPT ![r] = Append(@, c)]
Return(r, result) ==
    calls' = [calls EXCEPT ![r] =
                 [calls[r] EXCEPT ![Len(calls[r])].result = result]]
\* the running invocation returns or raises, and the next one starts
ReturnEnter(r, result, c) ==
    calls' = [calls EXCEPT ![r] =
                 Append([calls[r] EXCEPT ![Len(calls[r])].result = result], c)]

\* a newly received request fails the validation: the response is sent, or
\* the exception leaves do_POST
Reject(r, q, v) ==
    /\ req' = [req EXCEPT ![r] = q]
    /\ args' = [args EXCEPT ![r] = v]
    /\ IF v.kind = "respond"
       THEN /\ Send(r, v.status, v.body, v.model)
            /\ pc' = [pc EXCEPT ![r] = "done"]
       ELSE /\ UNCHANGED resp
            /\ pc' = [pc EXCEPT ![r] = "raised"]

\* a newly received request passes the validation
Accept(r, q, v) ==
    /\ req' = [req EXCEPT ![r] = q]
    /\ args' = [args EXCEPT ![r] = v]

\* ------------------------------------------------------------------ GET
\* Handler.do_GET of the four servers: what is sent for a path
GetResponse(g, path, model_id) ==
    IF path = "/health" THEN Respond(200, "ok")
    ELSE IF g \in {"mlx", "vlm"} /\ path = "/v1/models"
         THEN [Respond(200, "model list") EXCEPT !.model = model_id]
    ELSE IF g \in {"kokomo", "chatterbox"} /\ path = "/"
         THEN Respond(200, "banner")
    ELSE Respond(404, "not found")

\* do_GET, in the handler thread of the request, once `ready` holds: the
\* response is sent at once, nothing else is read or written
GetIf(r, ready) ==
    /\ pc[r] = "idle"
    /\ ready
    /\ \E q \in GetRequests(gateway) :
         Reject(r, q, GetResponse(gateway, q.path, BoundModel))
    /\ UNCHANGED <<cvars, avars, svars, chunks, calls, tmpdir>>

GetWhenUnlocked(r) == GetIf(r, lock = 0)

do_GET(r) == GetIf(r, TRUE)

\* ------------------------------------------------------------- mlx (LLM)
\* do_POST up to `with self.server.lock:`; _build_prompt, the first
\* statement of the try block, may raise into the except clause
MlxReceive(r) ==
    /\ gateway = "mlx" /\ pc[r] = "idle"
    /\ \E q \in Requests("mlx"), prompt \in {"ok", "raises"} :
         LET v == MlxValidate(q, BoundModel) IN
         IF v.kind # "proceed"
         THEN Reject(r, q, v)
         ELSE /\ Accept(r, q, v)
              /\ IF prompt = "ok"
                 THEN /\ pc' = [pc EXCEPT ![r] = "lock"]
                      /\ UNCHANGED resp
                 ELSE /\ Send(r, 500, "generation failed", NoModel)
                      /\ pc' = [pc EXCEPT ![r] = "done"]
    /\ UNCHANGED <<cvars, avars, svars, chunks, calls, tmpdir>>

\* `with self.server.lock:` entered once the lock is free, and _generate
\* called: generate(..., temp=)
MlxAcquireIf(r, free) ==
    /\ gateway = "mlx" /\ pc[r] = "lock"
    /\ free
    /\ lock' = r
    /\ Enter(r, Call("generate(temp)", args[r].model, TEmpty, args[r].n))
    /\ pc' = [pc EXCEPT ![r] = "generate"]
    /\ UNCHANGED <<cvars, avars, gateway, generator, MODEL, loads, tmpdirs, req, args,
                   chunks, tmpdir, resp>>

MlxAcquireNoLock(r) == MlxAcquireIf(r, TRUE)

MlxAcquire(r) == MlxAcquireIf(r, lock = 0)

\* the end of a generation: the with block is left, the lock released, and
\* the response of line 156 (or of the except clause, line 139) is sent
MlxLeaveHolding(r, result) ==
    /\ Return(r, result)
    /\ lock' = IF result = "ok" THEN 0 ELSE lock
    /\ IF result = "ok"
       THEN Send(r, 200, "completion", BoundModel)
       ELSE Send(r, 500, "generation failed", NoModel)
    /\ pc' = [pc EXCEPT ![r] = "done"]

MlxLeave(r, result) ==
    /\ Return(r, result)
    /\ lock' = 0
    /\ IF result = "ok"
       THEN Send(r, 200, "completion", BoundModel)
       ELSE Send(r, 500, "generation failed", NoModel)
    /\ pc' = [pc EXCEPT ![r] = "done"]

\* the first generate call returns or raises; on an exception of `retried`,
\* _generate calls generate again with temperature= in place of temp=
MlxGenerateOn(r, retried) ==
    /\ gateway = "mlx" /\ pc[r] = "generate"
    /\ \E result \in {"ok", "TypeError", "Exception"} :
         IF result \in retried
         THEN /\ ReturnEnter(r, result, Call("generate(temperature)",
                                             args[r].model, TEmpty, args[r].n))
              /\ pc' = [pc EXCEPT ![r] = "generate2"]
              /\ UNCHANGED <<lock, resp>>
         ELSE MlxLeave(r, result)
    /\ UNCHANGED <<cvars, avars, gateway, generator, MODEL, loads, tmpdirs, req, args,
                   chunks, tmpdir>>

MlxGenerateAnyError(r) == MlxGenerateOn(r, {"TypeError", "Exception"})

MlxGenerate(r) == MlxGenerateOn(r, {"TypeError"})

\* the second generate call returns or raises
MlxGenerateFallback(r) ==
    /\ gateway = "mlx" /\ pc[r] = "generate2"
    /\ \E result \in {"ok", "TypeError", "Exception"} : MlxLeave(r, result)
    /\ UNCHANGED <<cvars, avars, gateway, generator, MODEL, loads, tmpdirs, req, args,
                   chunks, tmpdir>>

\* ------------------------------------------------------------- vlm (VLM)
\* do_POST up to the call of generate: after the validation, PIL is imported
\* and the image opened, either of which may raise into the outer except
VlmReceive(r) ==
    /\ gateway = "vlm" /\ pc[r] = "idle"
    /\ \E q \in Requests("vlm"), pil \in {"ok", "raises"} :
         LET v == VlmValidate(q, BoundModel) IN
         IF v.kind # "proceed"
         THEN Reject(r, q, v) /\ UNCHANGED calls
         ELSE /\ Accept(r, q, v)
              /\ IF pil = "ok"
                 THEN /\ Enter(r, Call("generate", v.model, TEmpty, v.n))
                      /\ pc' = [pc EXCEPT ![r] = "generate"]
                      /\ UNCHANGED resp
                 ELSE /\ Send(r, 500, "vlm generation failed", NoModel)
                      /\ pc' = [pc EXCEPT ![r] = "done"]
                      /\ UNCHANGED calls
    /\ UNCHANGED <<cvars, avars, svars, chunks, tmpdir>>

VlmLeave(r, result) ==
    /\ Return(r, result)
    /\ IF result = "ok"
       THEN Send(r, 200, "completion", BoundModel)
       ELSE Send(r, 500, "vlm generation failed", NoModel)
    /\ pc' = [pc EXCEPT ![r] = "done"]

\* generate returns or raises; on any exception the inner except clause
\* imports chat (which may be missing) and calls it
VlmGenerate(r) ==
    /\ gateway = "vlm" /\ pc[r] = "generate"
    /\ \E result \in {"ok", "Exception"}, chat \in {"present", "missing"} :
         IF result = "Exception" /\ chat = "present"
         THEN /\ ReturnEnter(r, result,
                             Call("chat", args[r].model, TEmpty, args[r].n))
              /\ pc' = [pc EXCEPT ![r] = "chat"]
              /\ UNCHANGED resp
         ELSE VlmLeave(r, result)
    /\ UNCHANGED <<cvars, avars, svars, req, args, chunks, tmpdir>>

\* chat returns or raises
VlmChat(r) ==
    /\ gateway = "vlm" /\ pc[r] = "chat"
    /\ \E result \in {"ok", "Exception"} : VlmLeave(r, result)
    /\ UNCHANGED <<cvars, avars, svars, req, args, chunks, tmpdir>>

\* ------------------------------------------- temporary directories (both TTS)
\* tempfile.TemporaryDirectory().__enter__: mkdtemp creates a directory under
\* a random name that does not exist yet
Mkdtemp(existing) == DirNames \ existing

EnterTmp(r, d) ==
    /\ tmpdirs' = tmpdirs \cup {d}
    /\ tmpdir' = [tmpdir EXCEPT ![r] = d]

\* TemporaryDirectory.__exit__, run however the with block is left
Cleanup(r) ==
    /\ tmpdirs' = tmpdirs \ {tmpdir[r]}
    /\ tmpdir' = [tmpdir EXCEPT ![r] = NoDir]

\* ----------------------------------------------------------- kokomo (TTS)
\* do_POST up to the start of subprocess.run: after the validation the with
\* block is entered and the generator started on the command line
\* [generator, --model, model, --text, text, --file_prefix, tmpdir/out, ...]
KokomoReceive(r) ==
    /\ gateway = "kokomo" /\ pc[r] = "idle"
    /\ \E q \in Requests("kokomo") :
         LET v == KokomoValidate(q, BoundModel, generator) IN
         IF v.kind # "proceed"
         THEN Reject(r, q, v) /\ UNCHANGED <<calls, tmpdirs, tmpdir>>
         ELSE /\ Accept(r, q, v)
              /\ \E d \in Mkdtemp(tmpdirs) : EnterTmp(r, d)
              /\ Enter(r, Call("subprocess.run", v.model, v.text, 0))
              /\ pc' = [pc EXCEPT ![r] = "run"]
              /\ UNCHANGED resp
    /\ UNCHANGED <<cvars, avars, gateway, generator, MODEL, loads, lock, chunks>>

\* how a run of the generator may end: its exit (or OSError when it cannot
\* be started), the files it leaves in the directory, and whether the
\* output file can be read
Run(exit, files, readable) ==
    [exit |-> exit, files |-> files, readable |-> readable]
GeneratorRuns ==
    {Run("OSError", {}, FALSE), Run("nonzero", {"log.txt"}, FALSE),
     Run("zero", {"log.txt"}, FALSE), Run("zero", {"out.wav"}, TRUE),
     Run("zero", {"out_000.wav"}, TRUE), Run("zero", {"out.wav"}, FALSE)}

\* out.wav when it exists, else the last of the *.wav, else None
Produced(files) ==
    IF "out.wav" \in files THEN "out.wav"
    ELSE IF "out_000.wav" \in files THEN "out_000.wav"
    ELSE "None"

\* what the handler does once subprocess.run is over: [result of the call,
\* status and body sent (status 0: an exception nothing catches)]
KokomoOutcome(exit, files, readable) ==
    IF exit = "OSError"
    THEN [result |-> "OSError", status |-> 0, body |-> ""]
    ELSE IF exit = "nonzero"
    THEN [result |-> "CalledProcessError", status |-> 500, body |-> "tts failed"]
    ELSE IF Produced(files) = "None"
    THEN [result |-> "ok", status |-> 500, body |-> "no output wav produced"]
    ELSE IF ~readable
    THEN [result |-> "ok", status |-> 500, body |-> "failed to read output"]
    ELSE [result |-> "ok", status |-> 200, body |-> "audio"]

\* subprocess.run ends (or cannot start), the output is looked for and read,
\* the with block is left and the response sent; `cleaned` tells on which
\* statuses the directory is removed
KokomoFinishOn(r, cleaned) ==
    /\ gateway = "kokomo" /\ pc[r] = "run"
    /\ \E run \in GeneratorRuns :
         LET o == KokomoOutcome(run.exit, run.files, run.readable) IN
         /\ Return(r, o.result)
         /\ IF o.status \in cleaned THEN Cleanup(r) ELSE UNCHANGED <<tmpdirs, tmpdir>>
         /\ IF o.status = 0
            THEN /\ UNCHANGED resp
                 /\ pc' = [pc EXCEPT ![r] = "raised"]
            ELSE /\ Send(r, o.status, o.body, NoModel)
                 /\ pc' = [pc EXCEPT ![r] = "done"]
    /\ UNCHANGED <<cvars, avars, gateway, generator, MODEL, loads, lock, req, args, chunks>>

KokomoFinishLeaky(r) == KokomoFinishOn(r, {200})

KokomoFinish(r) == KokomoFinishOn(r, {0, 200, 500})

\* ------------------------------------------------------- chatterbox (TTS)
\* audio is a sequence of segments: the tensor MODEL.generate returned for
\* the k-th chunk, or a run of zeros
Wav(k, samples) == [kind |-> "wav", chunk |-> k, samples |-> samples]
Silence(samples) == [kind |-> "silence", chunk |-> 0, samples |-> samples]

\* int(0.3 * (MODEL_SR or 24000))
SilenceSamples(model_sr) ==
    (3 * (IF model_sr = NoSr THEN DefaultSr ELSE model_sr)) \div 10

\* for wav in wavs[k:]: combined = torch.cat([combined, silence, wav], dim=1)
RECURSIVE CatLoop(_, _, _, _)
CatLoop(ws, k, silence, combined) ==
    IF k > Len(ws) THEN combined
    ELSE CatLoop(ws, k + 1, silence, combined \o <<silence, ws[k]>>)

\* the end of _generate_wav: the single wav as it is, or the wavs with the
\* silence between them
Combine(ws, model_sr) ==
    IF Len(ws) = 1 THEN <<ws[1]>>
    ELSE CatLoop(ws, 2, Silence(SilenceSamples(model_sr)), <<ws[1]>>)

\* chunks = _split_text(text, chunk_size), the loop starts
StartChunks(r, v) ==
    /\ chunks' = [chunks EXCEPT ![r] = split_text(v.text, v.n)]
    /\ pc' = [pc EXCEPT ![r] = "generate"]

\* do_POST up to the test `MODEL is not None` of _load_model, which
\* _generate_wav calls first
ChatterboxReceive(r) ==
    /\ gateway = "chatterbox" /\ pc[r] = "idle"
    /\ \E q \in Requests("chatterbox") :
         LET v == ChatterboxValidate(q) IN
         IF v.kind # "proceed"
         THEN Reject(r, q, v) /\ UNCHANGED chunks
         ELSE /\ Accept(r, q, v)
              /\ UNCHANGED resp
              /\ IF MODEL # "None"
                 THEN StartChunks(r, v)
                 ELSE /\ pc' = [pc EXCEPT ![r] = "loading"]
                      /\ UNCHANGED chunks
    /\ UNCHANGED <<cvars, avars, svars, calls, tmpdir>>

\* ChatterboxTTS.from_pretrained returns and MODEL is assigned (line 69), or
\* the import or the load raises into the except clause of do_POST
ChatterboxLoad(r) ==
    /\ gateway = "chatterbox" /\ pc[r] = "loading"
    /\ \E result \in {"ok", "Exception"} :
         IF result = "ok"
         THEN /\ MODEL' = "ChatterboxTTS"
              /\ loads' = loads + 1
              /\ pc' = [pc EXCEPT ![r] = "loaded"]
              /\ UNCHANGED resp
         ELSE /\ Send(r, 500, "tts failed", NoModel)
              /\ pc' = [pc EXCEPT ![r] = "done"]
              /\ UNCHANGED <<MODEL, loads>>
    /\ UNCHANGED <<cvars, avars, gateway, generator, lock, tmpdirs, req, args,
                   chunks, calls, tmpdir>>

\* MODEL_SR = getattr(model, "sr", None) (line 70), the next statement of the
\* loading thread; _load_model returns and the text is split
ChatterboxSetSr(r) ==
    /\ gateway = "chatterbox" /\ pc[r] = "loaded"
    /\ MODEL_SR' = ModelSr
    /\ StartChunks(r, args[r])
    /\ UNCHANGED <<cvars, svars, req, args, calls, tmpdir, resp, wavs, audio>>

\* one turn of `for chunk in chunks`: MODEL.generate(chunk) returns a wav or
\* raises; after the last chunk MODEL_SR is read and the audio concatenated.
\* With no chunk at all, wavs[0] raises.
ChatterboxGenerate(r) ==
    /\ gateway = "chatterbox" /\ pc[r] = "generate"
    /\ IF chunks[r] = <<>>
       THEN /\ Send(r, 500, "tts failed", NoModel)
            /\ pc' = [pc EXCEPT ![r] = "done"]
            /\ UNCHANGED <<calls, wavs, audio>>
       ELSE \E result \in {"ok", "Exception"} :
            LET k == Len(calls[r]) + 1 IN
            /\ calls' = [calls EXCEPT ![r] =
                  Append(@, [Call("MODEL.generate", NoModel, chunks[r][k], 0)
                             EXCEPT !.result = result])]
            /\ IF result # "ok"
               THEN /\ Send(r, 500, "tts failed", NoModel)
                    /\ pc' = [pc EXCEPT ![r] = "done"]
                    /\ UNCHANGED <<wavs, audio>>
               ELSE /\ UNCHANGED resp
                    /\ wavs' = [wavs EXCEPT ![r] = Append(@,
                                     Wav(k, WavSamples(chunks[r][k])))]
                    /\ IF k = Len(chunks[r])
                       THEN /\ audio' = [audio EXCEPT ![r] =
                                            Combine(wavs'[r], MODEL_SR)]
                            /\ pc' = [pc EXCEPT ![r] = "save"]
                       ELSE /\ UNCHANGED audio
                            /\ pc' = [pc EXCEPT ![r] = "generate"]
    /\ UNCHANGED <<cvars, svars, req, args, chunks, tmpdir, MODEL_SR>>

\* torchaudio is imported (or is missing) and the with block entered
ChatterboxMkdtemp(r) ==
    /\ gateway = "chatterbox" /\ pc[r] = "save"
    /\ \E torchaudio \in {"present", "missing"} :
         IF torchaudio = "present"
         THEN /\ \E d \in Mkdtemp(tmpdirs) : EnterTmp(r, d)
              /\ pc' = [pc EXCEPT ![r] = "write"]
              /\ UNCHANGED resp
         ELSE /\ Send(r, 500, "torchaudio not available", NoModel)
              /\ pc' = [pc EXCEPT ![r] = "done"]
              /\ UNCHANGED <<tmpdirs, tmpdir>>
    /\ UNCHANGED <<cvars, avars, gateway, generator, MODEL, loads, lock, req, args,
                   chunks, calls>>

\* torchaudio.save and the read of out.wav, neither inside a try; the with
\* block is left and, when both worked, the audio sent
ChatterboxSave(r) ==
    /\ gateway = "chatterbox" /\ pc[r] = "write"
    /\ Cleanup(r)
    /\ \E result \in {"ok", "Exception"} :
         IF result = "ok"
         THEN /\ Send(r, 200, "audio", NoModel)
              /\ pc' = [pc EXCEPT ![r] = "done"]
         ELSE /\ UNCHANGED resp
              /\ pc' = [pc EXCEPT ![r] = "raised"]
    /\ UNCHANGED <<cvars, avars, gateway, generator, MODEL, loads, lock, req, args,
                   chunks, calls>>

\* ---------------------------------------------------------- specifications
\* a gateway process serving up to MaxReq requests in handler threads
NoChunkerRun ==
    /\ ctext = <<>>
    /\ cbudget = 0
    /\ cpc = "off"
    /\ cchunks = <<>>
    /\ cframe = NoFrame

Init == GatewayInit /\ NoChunkerRun

Next ==
    \E r \in Req :
        \/ do_GET(r)
        \/ MlxReceive(r)
        \/ MlxAcquire(r)
        \/ MlxGenerate(r)
        \/ MlxGenerateFallback(r)
        \/ VlmReceive(r)
        \/ VlmGenerate(r)
        \/ VlmChat(r)
        \/ KokomoReceive(r)
        \/ KokomoFinish(r)
        \/ ChatterboxReceive(r)
        \/ ChatterboxLoad(r)
        \/ ChatterboxSetSr(r)
        \/ ChatterboxGenerate(r)
        \/ ChatterboxMkdtemp(r)
        \/ ChatterboxSave(r)

Spec == Init /\ [][Next]_vars

\* the LLM gateway alone, where every handler thread that can run does run
\* and every generation call returns or raises
MlxInit == Init /\ gateway = "mlx"

MlxNext ==
    \E r \in Req :
        \/ do_GET(r)
        \/ MlxReceive(r)
        \/ MlxAcquire(r)
        \/ MlxGenerate(r)
        \/ MlxGenerateFallback(r)

MlxFair ==
    \A r \in Req :
        /\ WF_vars(MlxAcquire(r))
        /\ WF_vars(MlxGenerate(r))
        /\ WF_vars(MlxGenerateFallback(r))

SpecMlx == MlxInit /\ [][MlxNext]_vars /\ MlxFair

\* one call of _split_text on a text and a budget, outside any request
ChunkInit ==
    /\ ctext \in Texts
    /\ cbudget \in Budgets
    /\ cpc = "call"
    /\ cchunks = <<>>
    /\ cframe = NoFrame
    /\ GatewayInit
    /\ gateway = "chatterbox"

ChunkCall ==
    /\ cpc = "call"
    /\ cchunks' = split_text(ctext, cbudget)
    /\ cpc' = "done"
    /\ UNCHANGED <<ctext, cbudget, cframe, svars, rvars, avars>>

ChunkNext == ChunkCall

SpecChunk == ChunkInit /\ [][ChunkNext]_vars

\* ------------------------------------------- _split_text, one turn at a time
\* the same call with every turn of its three loops a step of its own
StepTexts == UNION {[1..n -> Alphabet] : n \in 0..MaxStepLen}

StepInit ==
    /\ ctext \in StepTexts
    /\ cbudget \in Budgets
    /\ cpc = "call"
    /\ cchunks = <<>>
    /\ cframe = NoFrame
    /\ GatewayInit
    /\ gateway = "chatterbox"

\* lines 74-81: the early return, or the sentences are cut and the loop starts
StepEnter ==
    /\ cpc = "call"
    /\ IF Len(ctext) <= cbudget
       THEN /\ cchunks' = <<ctext>>
            /\ cpc' = "done"
            /\ UNCHANGED cframe
       ELSE /\ cframe' = [NoFrame EXCEPT !.sentences = ReSplit(ctext, SentenceEnd),
                                         !.i = 1]
            /\ cpc' = "sentence"
            /\ UNCHANGED cchunks
    /\ UNCHANGED <<ctext, cbudget, svars, rvars, avars>>

\* the word loop: a turn, or its end (lines 101-102) and the next part
StepWord ==
    /\ cpc = "word"
    /\ IF cframe.k > Len(cframe.words)
       THEN /\ cframe' = [cframe EXCEPT
                            !.chunks = Flush(cframe.chunks, cframe.word_chunk),
                            !.j = cframe.j + 1]
            /\ cpc' = "part"
       ELSE /\ cframe' = WordTurn(cframe, cbudget)
            /\ UNCHANGED cpc
    /\ UNCHANGED <<ctext, cbudget, cchunks, svars, rvars, avars>>

\* the part loop: a turn, or its end and the next sentence
StepPart ==
    /\ cpc = "part"
    /\ IF cframe.j > Len(cframe.parts)
       THEN /\ cframe' = [cframe EXCEPT !.i = cframe.i + 1]
            /\ cpc' = "sentence"
       ELSE /\ cframe' = PartTurn(cframe, cbudget)
            /\ cpc' = IF Len(cframe.parts[cframe.j]) > cbudget THEN "word"
                       ELSE "part"
    /\ UNCHANGED <<ctext, cbudget, cchunks, svars, rvars, avars>>

\* the sentence loop: a turn, or its end, the last flush and the filtered
\* list returned (lines 118-121)
StepSentence ==
    /\ cpc = "sentence"
    /\ IF cframe.i > Len(cframe.sentences)
       THEN /\ cchunks' = DropBlank(Flush(cframe.chunks, cframe.current))
            /\ cpc' = "done"
            /\ UNCHANGED cframe
       ELSE /\ cframe' = SentenceTurn(cframe, cbudget)
            /\ cpc' = IF Len(cframe.sentences[cframe.i]) > cbudget THEN "part"
                       ELSE "sentence"
            /\ UNCHANGED cchunks
    /\ UNCHANGED <<ctext, cbudget, svars, rvars, avars>>

StepNext == StepEnter \/ StepSentence \/ StepPart \/ StepWord

\* the interpreter keeps running the call once it has started
SpecChunkSteps == StepInit /\ [][StepNext]_vars /\ WF_vars(StepNext)

\* ------------------------------------------------------------------ claims
Ended(r) == pc[r] \in {"done", "raised"}
InGeneration(r) == pc[r] \in {"generate", "generate2"}
Range(f) == {f[i] : i \in DOMAIN f}
Last(f) == f[Len(f)]

\* C1: in the LLM gateway at most one request is inside the backend
\* generation call at any moment, whatever the interleaving of the handlers.
C1_SingleFlight ==
    gateway = "mlx" => Cardinality({r \in Req : InGeneration(r)}) <= 1

\* a request generates while another one waits for the lock
C1_Witness ==
    /\ gateway = "mlx"
    /\ \E r1, r2 \in Req : InGeneration(r1) /\ pc[r2] = "lock" /\ lock = r1

\* C2: for every text and budget m > 0, the chunks joined with single spaces
\* hold the whitespace-free tokens of the text, each once and in its order.
C2_RoundTrip ==
    (cpc = "done" /\ cbudget > 0) => Split(JoinSp(cchunks)) = Split(ctext)

\* C3: for every text and budget m > 0, every chunk has length <= m, except
\* a chunk that is one whitespace-free word of the text longer than m; and
\* every word longer than m is a chunk of its own.
C3_ChunkBudget ==
    (cpc = "done" /\ cbudget > 0) =>
        /\ \A i \in DOMAIN cchunks :
             \/ Len(cchunks[i]) <= cbudget
             \/ /\ SP \notin Range(cchunks[i])
                /\ cchunks[i] \in Range(Split(ctext))
        /\ \A w \in Range(Split(ctext)) :
             Len(w) > cbudget => w \in Range(cchunks)

\* a word longer than the budget came out among other chunks
C3_Witness ==
    /\ cpc = "done" /\ cbudget > 0
    /\ Len(cchunks) >= 2
    /\ \E i \in DOMAIN cchunks :
         Len(cchunks[i]) > cbudget /\ cchunks[i] \in Range(Split(ctext))

\* the request names a model id other than the bound one and passes every
\* check the handler makes before it looks at the model id
NamesOtherModel(r) ==
    /\ pc[r] # "idle"
    /\ req[r].body = "object" /\ req[r].model = OtherModel
    /\ IF gateway \in {"mlx", "vlm"}
       THEN req[r].path = "/v1/chat/completions" /\ req[r].messages = "text"
       ELSE req[r].path = "/tts" /\ ~MissingText(req[r]) /\ generator # "None"

\* C4: in every gateway that accepts a model id, a request naming another
\* model than the bound one gets a 400 that names the bound model, and the
\* backend is never invoked for it.
C4_ModelEnforced ==
    \A r \in Req :
        NamesOtherModel(r) =>
            /\ calls[r] = <<>>
            /\ Ended(r) => /\ Len(resp[r]) = 1
                           /\ resp[r][1].status = 400
                           /\ resp[r][1].model = BoundModel

\* C5: every failure during the handling of a POST becomes a 4xx/5xx
\* response: no handler ends without having sent a response.
C5_AlwaysResponds ==
    \A r \in Req : Ended(r) => Len(resp[r]) >= 1

\* C6: in the subprocess-based TTS gateway the directories that exist are
\* those of the requests whose generator is running, each its own: the
\* directory of a request is gone when its handling ends, on every path.
C6_TmpdirScoped ==
    gateway = "kokomo" =>
        /\ \A r \in Req : Ended(r) => tmpdir[r] = NoDir
        /\ tmpdirs = {tmpdir[r] : r \in {x \in Req : pc[x] = "run"}}
        /\ \A r1, r2 \in Req :
             (r1 # r2 /\ tmpdir[r1] # NoDir) => tmpdir[r1] # tmpdir[r2]

\* a request whose generator could not be started has ended, its directory
\* is gone, and another request holds the directory of its running generator
C6_Witness ==
    /\ gateway = "kokomo"
    /\ \E r1, r2 \in Req :
         /\ pc[r1] = "raised" /\ calls[r1] # <<>> /\ tmpdir[r1] = NoDir
         /\ pc[r2] = "run" /\ tmpdirs = {tmpdir[r2]}

\* C7: in every gateway with a model handle the model is loaded exactly
\* once, before any request reaches the backend, and never again.
C7_LoadedOnce ==
    gateway # "kokomo" =>
        /\ loads <= 1
        /\ \A r \in Req : calls[r] # <<>> => loads = 1

Parsed(q) == q.ctype # "json" \/ (q.body = "object" /\ q.chunk_size.t # "str")

\* a POST /tts whose resolved text is empty once trimmed
EmptyTts(r) ==
    /\ pc[r] # "idle"
    /\ req[r].path = "/tts"
    /\ Strip(ResolvedText(req[r])) = <<>>

C10_NoBlankChunk ==
    cpc = "done" => \A i \in DOMAIN cchunks : Strip(cchunks[i]) # <<>>

\* the number of samples of an audio
RECURSIVE TotalSamples(_)
TotalSamples(a) ==
    IF a = <<>> THEN 0 ELSE Head(a).samples + TotalSamples(Tail(a))

\* 0.3 s at the sample rate of the loaded model
GapSamples == (3 * ModelSr) \div 10

\* C11: for a TTS request split into n >= 1 chunks, the audio returned is the
\* audio of the chunks in chunk order with exactly n-1 gaps of 0.3 s of
\* silence at the sample rate of the model, one between each two consecutive
\* chunks and none before the first or after the last; its length is the sum
\* of the chunk lengths plus n-1 gaps; for n = 1 it is the chunk's audio.
C11_Concatenation ==
    gateway = "chatterbox" =>
        \A r \in Req :
            audio[r] # <<>> =>
                LET n == Len(chunks[r]) IN
                /\ n >= 1 /\ Len(wavs[r]) = n /\ Len(audio[r]) = 2 * n - 1
                /\ \A k \in 1..n :
                     audio[r][2 * k - 1] = wavs[r][k] /\ wavs[r][k].chunk = k
                /\ \A k \in 1..(n - 1) : audio[r][2 * k] = Silence(GapSamples)
                /\ TotalSamples(audio[r]) =
                     TotalSamples(wavs[r]) + (n - 1) * GapSamples

\* request r has been received and is a GET /health
IsHealth(r) == pc[r] # "idle" /\ req[r] = Get("/health")

\* the step in which the handler of r takes a GET /health
HealthStep(r) == pc[r] = "idle" /\ pc'[r] # "idle" /\ req'[r] = Get("/health")

\* all that request r has touched
Touched(r) ==
    <<pc[r], req[r], args[r], chunks[r], calls[r], tmpdir[r], resp[r], wavs[r],
      audio[r]>>

\* a received GET /health has been answered 200 "ok" and nothing else
HealthAnswered ==
    \A r \in Req :
        IsHealth(r) =>
            /\ pc[r] = "done"
            /\ resp[r] = <<[status |-> 200, body |-> "ok", model |-> NoModel]>>
            /\ calls[r] = <<>> /\ chunks[r] = <<>> /\ wavs[r] = <<>>
            /\ audio[r] = <<>> /\ tmpdir[r] = NoDir

\* whatever the other handlers are doing, a GET /health can be taken
HealthNeverWaits ==
    \A r \in Req : pc[r] = "idle" => ENABLED (do_GET(r) /\ HealthStep(r))

\* taking a GET /health changes nothing of the server or of other requests
HealthFrame ==
    \A r \in Req :
        HealthStep(r) =>
            /\ UNCHANGED <<svars, MODEL_SR>>
            /\ \A o \in Req \ {r} : UNCHANGED Touched(o)

\* C12: in every gateway GET /health is answered 200 "ok" in every server
\* state with no backend interaction: it loads no model, invokes no
\* generation, leaves the server state unchanged and does not wait for the
\* generation lock, so it is answered while another request is generating.
C12_HealthProbe ==
    [](HealthAnswered /\ HealthNeverWaits) /\ [][HealthFrame]_vars

\* a GET /health has been answered while another request holds the lock and
\* generates
C12_Witness ==
    /\ gateway = "mlx"
    /\ \E r1, r2 \in Req :
         /\ InGeneration(r1) /\ lock = r1
         /\ IsHealth(r2) /\ pc[r2] = "done" /\ Len(resp[r2]) = 1

\* the outcome of the validation checks of the gateway on a request
Validation(q) ==
    IF q.method = "GET" THEN GetResponse(gateway, q.path, BoundModel)
    ELSE IF gateway = "mlx" THEN MlxValidate(q, BoundModel)
    ELSE IF gateway = "vlm" THEN VlmValidate(q, BoundModel)
    ELSE IF gateway = "kokomo" THEN KokomoValidate(q, BoundModel, generator)
    ELSE ChatterboxValidate(q)

\* the handler of r is past Validated: it waits for, runs or has run the backend
PastValidation(r) ==
    \/ pc[r] \notin {"idle", "done", "raised"}
    \/ calls[r] # <<>> \/ chunks[r] # <<>> \/ tmpdir[r] # NoDir

\* no backend work for a request before all its checks have passed
ValidatedFirst ==
    \A r \in Req :
        PastValidation(r) =>
            /\ Validation(req[r]).kind = "proceed"
            /\ args[r] = Validation(req[r])

\* one response per request, sent as the last thing its handler does
OneResponse ==
    \A r \in Req :
        /\ Len(resp[r]) <= 1
        /\ Len(resp[r]) = 1 => pc[r] = "done"
        /\ Ended(r) => Len(resp[r]) = 1
        /\ Ended(r) => \A i \in DOMAIN calls[r] : calls[r][i].result # "running"

\* Responded and Failed are terminal: nothing of an ended request changes
Terminal == \A r \in Req : Ended(r) => UNCHANGED Touched(r)

\* C13: each request goes Received -> Validated -> (Chunked)? -> Generating
\* -> Assembling -> Responded, or to Failed from any of these: the backend is
\* never invoked before all validation checks of the request have passed;
\* Responded and Failed are terminal; exactly one response is sent per
\* request, and no backend call and no second response follows it.
C13_Lifecycle == [](ValidatedFirst /\ OneResponse) /\ [][Terminal]_vars

\* the chunks that are not blank, in order
NonBlank(cs) == SelectSeq(cs, LAMBDA c : Strip(c) # <<>>)

\* with a budget m <= 0 no two words fit a chunk: every word of the text
\* comes out, in order, as a chunk of its own
DegenerateProgress ==
    (cpc = "done" /\ cbudget <= 0) => NonBlank(cchunks) = Split(ctext)

\* C14: the chunker terminates for every text and every integer budget, the
\* budgets m = 0 and m < 0 included, and makes progress there: each word of
\* the text is emitted, one word per chunk; chunk("a", 0) = ["a"].
C14_DegenerateBudget ==
    /\ <>(cpc = "done")
    /\ [](cpc = "done" => cchunks = split_text(ctext, cbudget))
    /\ [](DegenerateProgress /\ split_text(<<"a">>, 0) = <<(<<"a">>)>>)

\* several words went through the word loop with a negative budget
C14_Witness ==
    /\ cpc = "done" /\ cbudget < 0
    /\ Len(cframe.words) >= 1 /\ Len(Split(ctext)) >= 2
    /\ cchunks = Split(ctext)

\* piece s lies in text c, in one run of characters
Within(s, c) ==
    \E i \in 0..(Len(c) - Len(s)) : SubSeq(c, i + 1, i + Len(s)) = s

\* the piece, trimmed, lies whole inside one of the chunks returned
InOneChunk(piece) ==
    \E i \in DOMAIN cchunks : Within(Strip(piece), cchunks[i])

\* the sentences of the text, and those longer than the budget
Sentences == Range(ReSplit(ctext, SentenceEnd))
Oversized == {s \in Sentences : Len(s) > cbudget}

\* the words of all the chunks returned
ChunkWords == UNION {Range(Split(cchunks[i])) : i \in DOMAIN cchunks}

\* "Hello world. This is a test."
Hello ==
    <<"H", "e", "l", "l", "o", " ", "w", "o", "r", "l", "d", ".", " ", "T", "h",
      "i", "s", " ", "i", "s", " ", "a", " ", "t", "e", "s", "t", ".">>

\* chunk("Hello world. This is a test.", 15)
        \*  = ["Hello world.", "This is a test."]
Scenario1 ==
    split_text(Hello, 15) = <<SubSeq(Hello, 1, 12), SubSeq(Hello, 14, 28)>>

\* C15: the chunker cuts at the coarsest boundary possible (sentence, then
\* clause, then word): for every text and m > 0 a sentence of length <= m is
\* never split across two chunks, a comma-delimited clause of length <= m
\* inside an oversized sentence is never split across two chunks, and no word
\* is ever split; chunk("Hello world. This is a test.", 15) gives the two
\* sentences.
C15_CoarsestBoundary ==
    /\ Scenario1
    /\ (cpc = "done" /\ cbudget > 0) =>
          /\ \A s \in Sentences \ Oversized : InOneChunk(s)
          /\ \A s \in Oversized :
               \A p \in Range(ReSplit(s, ClauseEnd)) :
                   Len(p) <= cbudget => InOneChunk(p)
          /\ ChunkWords = Range(Split(ctext))

\* a sentence of several words that fits the budget came out whole, as one
\* of several chunks
C15_Witness ==
    /\ cpc = "done" /\ cbudget > 0 /\ Len(cchunks) >= 2
    /\ \E s \in Sentences \ Oversized :
         SP \in Range(Strip(s)) /\ Strip(s) \in Range(cchunks)

\* the lock is held exactly while its holder is inside the generation call
LockFollowsGeneration ==
    /\ lock # 0 => InGeneration(lock)
    /\ \A r \in Req : InGeneration(r) => lock = r

Explicit(x, d) == IF x.t = "num" THEN x.n ELSE d

\* C17: a sampling or chunking parameter present in the request, the value 0
\* included, is exactly the value passed to the backend, and the
\* process-wide default is used only when the parameter is absent or null:
\* max_tokens of every generate call of the LLM and VLM gateways, and
\* chunk_size of the _split_text call of chatterbox.
C17_ExplicitParams ==
    \A r \in Req :
        /\ gateway \in {"mlx", "vlm"} =>
              \A k \in 1..Len(calls[r]) :
                  calls[r][k].n = Explicit(req[r].max_tokens, DefaultMaxTokens)
        /\ (gateway = "chatterbox" /\ pc[r] = "generate") =>
              chunks[r] = split_text(args[r].text,
                                     IF req[r].ctype = "json"
                                     THEN Explicit(req[r].chunk_size,
                                                   DefaultChunkSize)
                                     ELSE DefaultChunkSize)

====
